---- MODULE Spec2Model ----
(***************************************************************************)
(* Session / cart state machine of the Taaza chatbot backend (src/main.py). *)
(*                                                                         *)
(* The state is the process-wide `sessions` dictionary, the sleeping        *)
(* auto-logout threads started by reset_session_later, the wall clock and   *)
(* the request handlers in flight.  FastAPI runs the `def` endpoints on a   *)
(* thread pool, so a handler is a thread with a position (pc) and locals;   *)
(* one action is one atomic step of one handler, of one timer thread, or    *)
(* of the clock.                                                            *)
(*                                                                         *)
(* Strings that the code inspects (item names, profile fields) are          *)
(* sequences of one-character strings.  Prices are integer-valued.          *)
(***************************************************************************)
EXTENDS Integers, Sequences, FiniteSets, Bags, TLC

VARIABLES
    now,        \* time.time(), in seconds
    sessions,   \* the `sessions` dict: session id -> session record
    timers,     \* the sleeping threads of reset_session_later (a bag)
    nobj,       \* number of session records created so far (object identity)
    handlers,   \* per worker thread: the request it serves, its pc and locals
    reply,      \* the HTTP reply sent by the step just taken (NoReply if none)
    addlog,     \* history: per session, the add_to_cart_state calls since creation
    calls       \* history: per session, the cart calls completed, in that order

vars == <<now, sessions, timers, nobj, handlers, reply, addlog, calls>>

----------------------------------------------------------------------------
(* Program constants *)

\* AUTO_LOGOUT_SECONDS = int(os.getenv("AUTO_LOGOUT_SECONDS", "1800"))
AUTO_LOGOUT_SECONDS == 1800

\* reset_session_later(sid, delay=30) after a successful checkout
CHECKOUT_LOGOUT_DELAY == 30

\* requests.post(BILL_API_URL, ..., timeout=15)
BILL_TIMEOUT_SECONDS == 15

\* country_code: Optional[str] = "+92"
DEFAULT_COUNTRY_CODE == <<"+", "9", "2">>

----------------------------------------------------------------------------
(* Bounds of the model *)

\* session records ever created in one run
MaxCreates == 2

\* |quantity| a request may drive a line item to
MaxQty == 2

\* auto-logout threads alive at once (a checkout is not admitted beyond it)
MaxTimers == 2

\* the same where two checkouts are served at the same time (SpecPay)
MaxPayTimers == 3

\* the clock stops here: the last instant at which a session created at time 0
\* can still be in the store (idle window, then a grace window)
MaxTime == 1830

\* cart calls admitted on one session while their history is kept
MaxCalls == 3

\* the clock is also observed in the middle of the grace window before each
\* timer's due time
ObserveLead == CHECKOUT_LOGOUT_DELAY \div 2

\* the worker threads of the pool
Threads == {1, 2}

\* item names sent by clients: three spellings of one name
Tea == <<"T", "e", "a">>
tea == <<"t", "e", "a">>
TEA == <<"T", "E", "A">>
\* and a name that is none of them
Ice == <<"I", "c", "e">>

\* requests of the concurrent specification (Spec): two threads, two sessions
ItemNames == {Tea}
RemoveNames == {tea}
Prices == {500}
AddQtys == {1}
RemoveQtys == {1}

\* requests of the cart specification (SpecCart): one thread, one shopper
CartThreads == {1}
CartItemNames == {Tea, tea}
CartRemoveNames == {Tea, tea, TEA, Ice}
CartPrices == {300, 500}
CartAddQtys == {0, 1, 2}
CartRemoveQtys == {-1, 0, 1, 2}

\* a session id no create ever returned
UnknownSid == <<"sess_", -1>>

\* profiles sent to /session/create
Ali == <<"A", "l", "i">>
GoodMobile == <<"3", "0", "0", "1", "2", "3", "4", "5", "6", "7">>
ShortMobile == <<"1", "2", "3", "4", "5">>
LongMobile == <<"3", "0", "0", "1", "2", "3", "4", "5", "6", "7", "8">>
LetterMobile == <<"a", "b", "c", "d", "e", "f", "g", "h", "i", "j">>
WrongLeadMobile == <<"4", "0", "0", "1", "2", "3", "4", "5", "6", "7">>
PaddedMobile == <<" ">> \o GoodMobile \o <<"\t">>
BlankMobile == <<" ", " ">>
\* ten digits of which the last is ARABIC-INDIC DIGIT SEVEN (one character)
ArabicMobile == <<"3", "0", "0", "1", "2", "3", "4", "5", "6", "U+0667">>
House == <<"H", "o", "u", "s", "e", " ", "1">>
ProfileNames == {Ali}
Mobiles == {GoodMobile, ShortMobile}
Addresses == {House}
PaymentMethods == {"Cash on Delivery"}

\* requests of the profile specification (SpecCreate)
CreateNames == {Ali, <<" ">>}
CreateMobiles == {GoodMobile, ShortMobile, LongMobile, LetterMobile, WrongLeadMobile,
                  PaddedMobile, BlankMobile, ArabicMobile, <<>>}
CreateAddresses == {House, <<"H", "1">>}

\* what requests.post can do: 0 stands for a raised exception (timeout,
\* connection error), any other value is resp.status_code
BillingOutcomes == {0, 200, 201, 500}

----------------------------------------------------------------------------
(* Strings *)

UpperCase == <<"A","B","C","D","E","F","G","H","I","J","K","L","M",
               "N","O","P","Q","R","S","T","U","V","W","X","Y","Z">>
LowerCase == <<"a","b","c","d","e","f","g","h","i","j","k","l","m",
               "n","o","p","q","r","s","t","u","v","w","x","y","z">>
\* the characters str.isdigit() accepts: the ASCII digits and every other
\* Unicode digit, of which the model has one
Digits == {"0","1","2","3","4","5","6","7","8","9","U+0667"}
\* the characters str.strip() removes
Whitespace == {" ", "\t"}

lower_char(c) ==
    IF \E i \in DOMAIN UpperCase : UpperCase[i] = c
    THEN LowerCase[CHOOSE i \in DOMAIN UpperCase : UpperCase[i] = c]
    ELSE c

\* str.lower()
lower(s) == [i \in DOMAIN s |-> lower_char(s[i])]

\* str.strip()
RECURSIVE lstrip(_)
lstrip(s) == IF s # <<>> /\ Head(s) \in Whitespace THEN lstrip(Tail(s)) ELSE s

RECURSIVE rstrip(_)
rstrip(s) ==
    IF s # <<>> /\ s[Len(s)] \in Whitespace
    THEN rstrip(SubSeq(s, 1, Len(s) - 1))
    ELSE s

strip(s) == rstrip(lstrip(s))

\* str.isdigit(): non-empty and every character a digit
isdigit(s) == s # <<>> /\ \A i \in DOMAIN s : s[i] \in Digits

\* mutant: the length test is missing
validate_mobile_any_length(mobile) ==
    IF mobile = <<>> \/ ~isdigit(mobile) THEN FALSE
    ELSE IF Head(mobile) # "3" THEN FALSE
    ELSE TRUE

validate_mobile(mobile) ==
    IF mobile = <<>> \/ ~isdigit(mobile) THEN FALSE
    ELSE IF Head(mobile) # "3" THEN FALSE
    ELSE IF Len(mobile) # 10 THEN FALSE
    ELSE TRUE

----------------------------------------------------------------------------
(* Cart engine: the pure parts of add_to_cart_state, remove_from_cart_state *)
(* and compute_cart_summary                                                 *)

\* mutant: the scan skips the first line
FindExactSkipFirst(cart, item_name) ==
    IF \E i \in DOMAIN cart : i > 1 /\ cart[i].name = item_name
    THEN CHOOSE i \in DOMAIN cart : i > 1 /\ cart[i].name = item_name
    ELSE 0

\* for it in state["cart"]: if it["name"] == item_name  -- first index, 0 if none
FindExact(cart, item_name) ==
    IF \E i \in DOMAIN cart : cart[i].name = item_name
    THEN CHOOSE i \in DOMAIN cart :
            /\ cart[i].name = item_name
            /\ \A j \in 1..(i - 1) : cart[j].name # item_name
    ELSE 0

\* mutant: the first line matches whatever its name
FindLowerAnyName(cart, item_name) == IF cart # <<>> THEN 1 ELSE 0

\* for i, it in enumerate(cart): if it["name"].lower() == item_name.lower()
FindLower(cart, item_name) ==
    IF \E i \in DOMAIN cart : lower(cart[i].name) = lower(item_name)
    THEN CHOOSE i \in DOMAIN cart :
            /\ lower(cart[i].name) = lower(item_name)
            /\ \A j \in 1..(i - 1) : lower(cart[j].name) # lower(item_name)
    ELSE 0

\* mutant: the subtotal of a new line is its unit price
NewLineUnitSubtotal(item_name, price, qty) ==
    [name |-> item_name, price |-> price, qty |-> qty, subtotal |-> price]

\* {"name": item_name, "price": float(price), "qty": int(qty),
\*  "subtotal": float(price) * int(qty)}
NewLine(item_name, price, qty) ==
    [name |-> item_name, price |-> price, qty |-> qty, subtotal |-> price * qty]

\* mutant: the subtotal is not recomputed
StoreQtyStaleSubtotal(cart, i, q) == [cart EXCEPT ![i] = [@ EXCEPT !.qty = q]]

\* it["qty"] = q ; it["subtotal"] = it["qty"] * it["price"]
StoreQty(cart, i, q) ==
    [cart EXCEPT ![i] = [@ EXCEPT !.qty = q, !.subtotal = q * cart[i].price]]

\* cart.pop(i)
Pop(cart, i) == SubSeq(cart, 1, i - 1) \o SubSeq(cart, i + 1, Len(cart))

\* add_to_cart_state run to its end by one thread alone: the cart afterwards
add_to_cart_state(cart, item_name, price, qty) ==
    LET i == FindExact(cart, item_name) IN
    IF i # 0 THEN StoreQty(cart, i, cart[i].qty + qty)
    ELSE Append(cart, NewLine(item_name, price, qty))

\* remove_from_cart_state run to its end by one thread alone: the cart
\* afterwards and the result it returns
remove_from_cart_state(cart, item_name, qty) ==
    LET i == FindLower(cart, item_name) IN
    IF i = 0 THEN [cart |-> cart, success |-> FALSE, message |-> "not present"]
    ELSE IF cart[i].qty <= qty
    THEN [cart |-> Pop(cart, i), success |-> TRUE, message |-> "Removed"]
    ELSE [cart |-> StoreQty(cart, i, cart[i].qty - qty), success |-> TRUE,
          message |-> "Reduced"]

RECURSIVE SumSubtotals(_)
SumSubtotals(cart) ==
    IF cart = <<>> THEN 0 ELSE Head(cart).subtotal + SumSubtotals(Tail(cart))

compute_cart_summary(cart) ==
    [lines |-> [i \in DOMAIN cart |->
                  [name |-> cart[i].name, qty |-> cart[i].qty,
                   rate |-> cart[i].price, amount |-> cart[i].subtotal]],
     total |-> SumSubtotals(cart)]

----------------------------------------------------------------------------
(* Handlers: one record per worker thread, and the reply a step sends *)

NoSummary == [lines |-> <<>>, total |-> 0]

Idle ==
    [op |-> "idle", pc |-> "idle", sid |-> <<>>, itemName |-> <<>>,
     price |-> 0, qty |-> 0, method |-> "", state |-> 0, it |-> 0, seen |-> 0,
     tmp |-> 0, res |-> "", payload |-> <<>>, sent |-> 0]

NoReply ==
    [op |-> "none", sid |-> <<>>, code |-> 0, detail |-> "", cart |-> <<>>,
     summary |-> NoSummary, payload |-> <<>>, status |-> 0]

\* a thread of the pool is free to take the next request
Free(h) == handlers[h].pc = "idle"

\* the handler's `state` local still is the record stored under its session id
Live(h) ==
    /\ handlers[h].sid \in DOMAIN sessions
    /\ sessions[handlers[h].sid].obj = handlers[h].state

\* the handler returns (or raises): its HTTP reply
Reply(r, code, detail, cart) ==
    [op |-> r.op, sid |-> r.sid, code |-> code, detail |-> detail, cart |-> cart,
     summary |-> compute_cart_summary(cart), payload |-> <<>>, status |-> 0]

\* HTTPException(status_code=404, detail="Session not found.")
NotFound(r) == Reply(r, 404, "Session not found.", <<>>)

\* an unhandled KeyError from sessions[sid]: the server answers 500
KeyError(r) == Reply(r, 500, "KeyError", <<>>)

Begin(h, rec) == [handlers EXCEPT ![h] = rec]

Done(h) == [handlers EXCEPT ![h] = Idle]

----------------------------------------------------------------------------
(* Session store *)

\* sessions[k] = v
Put(store, k, v) == [x \in DOMAIN store \cup {k} |-> IF x = k THEN v ELSE store[x]]

\* sessions.pop(k, None)
Remove(store, k) == [x \in DOMAIN store \ {k} |-> store[x]]

\* History of one session: while every cart call since creation was an
\* add_to_cart_state with one and the same item name, the name, the sum of the
\* quantities and the prices of the first and of the last call
FreshLog == [pure |-> TRUE, name |-> <<>>, sum |-> 0, first |-> 0, last |-> 0]
Impure == [pure |-> FALSE, name |-> <<>>, sum |-> 0, first |-> 0, last |-> 0]

LogAdd(log, sid, item_name, price, qty) ==
    IF sid \notin DOMAIN log THEN log
    ELSE [log EXCEPT ![sid] =
            IF @.pure /\ @.name \in {<<>>, item_name}
            THEN [pure |-> TRUE, name |-> item_name, sum |-> @.sum + qty,
                  first |-> IF @.name = <<>> THEN price ELSE @.first,
                  last |-> price]
            ELSE Impure]

LogOther(log, sid) ==
    IF sid \notin DOMAIN log THEN log ELSE [log EXCEPT ![sid] = Impure]

\* History of the calls that changed, or looked for a line in, the cart of a
\* session: kept only in the specifications that start with KeepCalls
NoCalls == [keep |-> FALSE, of |-> << >>]
KeepCalls == [keep |-> TRUE, of |-> << >>]

NewCalls(c, sid) == IF c.keep THEN [c EXCEPT !.of = Put(@, sid, <<>>)] ELSE c

DropCalls(c, sid) == [c EXCEPT !.of = Remove(@, sid)]

LogCall(c, sid, call) ==
    IF sid \in DOMAIN c.of THEN [c EXCEPT !.of[sid] = Append(@, call)] ELSE c

AddCall(r) == [op |-> "add", name |-> r.itemName, price |-> r.price, qty |-> r.qty]

RemoveCall(r) == [op |-> "remove", name |-> r.itemName, price |-> 0, qty |-> r.qty]

ClearCall == [op |-> "clear", name |-> <<>>, price |-> 0, qty |-> 0]

\* f"sess_{int(time.time()*1000)}" with the clock reading t in seconds
NewSessionId(t) == <<"sess_", t * 1000>>

\* mutant: every thread sleeps the grace delay
StartTimerGraceDelay(session_id, delay) ==
    timers (+) SetToBag({[sid |-> session_id, delay |-> delay,
                          due |-> now + CHECKOUT_LOGOUT_DELAY]})

\* reset_session_later: a thread that sleeps `delay` seconds, then pops
StartTimer(session_id, delay) ==
    timers (+) SetToBag({[sid |-> session_id, delay |-> delay, due |-> now + delay]})

Init ==
    /\ now = 0
    /\ sessions = << >>
    /\ timers = EmptyBag
    /\ nobj = 0
    /\ handlers = [h \in Threads |-> Idle]
    /\ reply = NoReply
    /\ addlog = << >>
    /\ calls = NoCalls

\* POST /session/create
SessionCreate(h, rname, rmobile, raddress) ==
    /\ Free(h)
    /\ nobj < MaxCreates
    /\ LET name == strip(rname)
           mobile == strip(rmobile)
           address == strip(raddress)
           country_code == DEFAULT_COUNTRY_CODE
           session_id == NewSessionId(now)
           rec == [Idle EXCEPT !.op = "create"]
       IN  IF name = <<>>
           THEN /\ reply' = Reply(rec, 400, "Name cannot be empty.", <<>>)
                /\ UNCHANGED <<now, sessions, timers, nobj, handlers, addlog, calls>>
           ELSE IF ~validate_mobile(mobile)
           THEN /\ reply' = Reply(rec, 400, "Mobile must be 10 digits", <<>>)
                /\ UNCHANGED <<now, sessions, timers, nobj, handlers, addlog, calls>>
           ELSE IF address = <<>> \/ Len(address) < 3
           THEN /\ reply' = Reply(rec, 400, "Address cannot be empty or too short.", <<>>)
                /\ UNCHANGED <<now, sessions, timers, nobj, handlers, addlog, calls>>
           ELSE /\ sessions' = Put(sessions, session_id,
                      [obj |-> nobj + 1,
                       created_at |-> now,
                       user |-> [name |-> name, mobile |-> country_code \o mobile,
                                 address |-> address],
                       cart |-> <<>>,
                       categories |-> "None",
                       selected_cat |-> "None"])
                /\ nobj' = nobj + 1
                /\ timers' = StartTimer(session_id, AUTO_LOGOUT_SECONDS)
                /\ reply' = Reply([rec EXCEPT !.sid = session_id], 200, "created", <<>>)
                /\ addlog' = Put(addlog, session_id, FreshLog)
                /\ calls' = NewCalls(calls, session_id)
                /\ UNCHANGED <<now, handlers>>

\* _worker of reset_session_later, after its sleep: sessions.pop(session_id, None)
TimerFire(tm) ==
    /\ BagIn(tm, timers)
    /\ tm.due <= now
    /\ sessions' = Remove(sessions, tm.sid)
    /\ timers' = timers (-) SetToBag({tm})
    /\ addlog' = Remove(addlog, tm.sid)
    /\ calls' = DropCalls(calls, tm.sid)
    /\ reply' = NoReply
    /\ UNCHANGED <<now, nobj, handlers>>

\* the instants at which the clock is observed: a timer's due time and
\* ObserveLead seconds before it
Instants == UNION {{tm.due, tm.due - ObserveLead} : tm \in BagToSet(timers)}

\* Time passes.  Handler code takes no time; time passes only while every
\* handler in flight waits for the billing service, and no longer than the
\* timeout of that call.  A sleeping thread wakes when its delay has elapsed,
\* so the clock never passes a due timer.
Tick ==
    /\ \A h \in Threads : handlers[h].pc \in {"idle", "billing"}
    /\ \E t \in Instants :
          /\ t > now /\ t <= MaxTime
          /\ \A tm \in BagToSet(timers) : t <= tm.due
          /\ \A h \in Threads :
                handlers[h].pc = "billing" => t - handlers[h].sent <= BILL_TIMEOUT_SECONDS
          /\ now' = t
    /\ reply' = NoReply
    /\ UNCHANGED <<sessions, timers, nobj, handlers, addlog, calls>>

----------------------------------------------------------------------------
(* Line items are dict objects: a handler that found its line (`it`) keeps   *)
(* a reference to that object while another thread may pop it from the list *)
(* or replace the list.  `it` is the line's index in the stored cart, 0 for *)
(* none, -1 once the object is no longer in the stored cart.                *)

\* the `it` references of the other handlers after cart.pop(i) on record obj
AfterPop(hs, h, obj, i) ==
    [g \in DOMAIN hs |->
        IF g # h /\ hs[g].state = obj /\ hs[g].it > 0
        THEN [hs[g] EXCEPT !.it = IF @ = i THEN -1 ELSE IF @ > i THEN @ - 1 ELSE @]
        ELSE hs[g]]

\* the `it` references of the other handlers after state["cart"] = [] on obj
AfterClear(hs, h, obj) ==
    [g \in DOMAIN hs |->
        IF g # h /\ hs[g].state = obj /\ hs[g].it > 0
        THEN [hs[g] EXCEPT !.it = -1]
        ELSE hs[g]]

\* mutant: the cart of every stored session replaced by c
WithCartEverySession(sid, c) ==
    [x \in DOMAIN sessions |-> [sessions[x] EXCEPT !.cart = c]]

\* the stored cart of session sid replaced by c
WithCart(sid, c) == [sessions EXCEPT ![sid].cart = c]

\* the quantity a request is admitted with keeps every line within MaxQty
QtyInBounds(sid, delta) ==
    sid \in DOMAIN sessions =>
        \A i \in DOMAIN sessions[sid].cart :
            /\ sessions[sid].cart[i].qty + delta <= MaxQty
            /\ sessions[sid].cart[i].qty + delta >= -MaxQty

----------------------------------------------------------------------------
(* POST /cart/add *)

\* sid = req.session_id; if sid not in sessions: raise 404
CartAddCheck(h, sid, itemName, price, qty) ==
    /\ Free(h)
    /\ QtyInBounds(sid, qty)
    /\ LET rec == [Idle EXCEPT !.op = "add", !.sid = sid, !.itemName = itemName,
                               !.price = price, !.qty = qty]
       IN  IF sid \notin DOMAIN sessions
           THEN /\ reply' = NotFound(rec)
                /\ UNCHANGED handlers
           ELSE /\ handlers' = Begin(h, [rec EXCEPT !.pc = "call"])
                /\ reply' = NoReply
    /\ UNCHANGED <<now, sessions, timers, nobj, addlog, calls>>

\* add_to_cart_state(sessions[sid], ...): the lookup, the scan for an equal
\* name, and either the append or the read of it["qty"] for it["qty"] += qty
CartAddCall(h) ==
    LET r == handlers[h] IN
    /\ r.op = "add" /\ r.pc = "call"
    /\ IF r.sid \notin DOMAIN sessions
       THEN /\ reply' = KeyError(r)
            /\ handlers' = Done(h)
            /\ UNCHANGED <<sessions, addlog, calls>>
       ELSE LET cart == sessions[r.sid].cart
                i == FindExact(cart, r.itemName)
                st == [r EXCEPT !.state = sessions[r.sid].obj]
            IN  /\ IF i = 0
                   THEN /\ sessions' = WithCart(r.sid,
                                         Append(cart, NewLine(r.itemName, r.price, r.qty)))
                        /\ handlers' = Begin(h, [st EXCEPT !.pc = "ret"])
                        /\ addlog' = LogAdd(addlog, r.sid, r.itemName, r.price, r.qty)
                        /\ calls' = LogCall(calls, r.sid, AddCall(r))
                   ELSE /\ handlers' = Begin(h, [st EXCEPT !.pc = "store", !.it = i,
                                                           !.seen = cart[i].qty,
                                                           !.tmp = cart[i].qty + r.qty])
                        /\ UNCHANGED <<sessions, addlog, calls>>
                /\ reply' = NoReply
    /\ UNCHANGED <<now, timers, nobj>>

\* the store of it["qty"] += qty and it["subtotal"] = it["qty"] * it["price"]
CartAddStore(h) ==
    LET r == handlers[h] IN
    /\ r.op = "add" /\ r.pc = "store"
    /\ sessions' = IF Live(h) /\ r.it > 0
                   THEN WithCart(r.sid, StoreQty(sessions[r.sid].cart, r.it, r.tmp))
                   ELSE sessions
    /\ handlers' = Begin(h, [r EXCEPT !.pc = "ret", !.it = 0, !.tmp = 0])
    /\ addlog' = LogAdd(addlog, r.sid, r.itemName, r.price, r.qty)
    /\ calls' = LogCall(calls, r.sid, AddCall(r))
    /\ reply' = NoReply
    /\ UNCHANGED <<now, timers, nobj>>

\* return {"success": True, "cart": sessions[sid]["cart"], "summary": ...}
CartAddReturn(h) ==
    LET r == handlers[h] IN
    /\ r.op = "add" /\ r.pc = "ret"
    /\ reply' = IF r.sid \notin DOMAIN sessions
                THEN KeyError(r)
                ELSE Reply(r, 200, "added", sessions[r.sid].cart)
    /\ handlers' = Done(h)
    /\ UNCHANGED <<now, sessions, timers, nobj, addlog, calls>>

----------------------------------------------------------------------------
(* POST /cart/remove *)

CartRemoveCheck(h, sid, itemName, qty) ==
    /\ Free(h)
    /\ QtyInBounds(sid, 0 - qty)
    /\ LET rec == [Idle EXCEPT !.op = "remove", !.sid = sid, !.itemName = itemName,
                               !.qty = qty]
       IN  IF sid \notin DOMAIN sessions
           THEN /\ reply' = NotFound(rec)
                /\ UNCHANGED handlers
           ELSE /\ handlers' = Begin(h, [rec EXCEPT !.pc = "call"])
                /\ reply' = NoReply
    /\ UNCHANGED <<now, sessions, timers, nobj, addlog, calls>>

\* remove_from_cart_state(sessions[sid], ...): the lookup, the scan for a
\* name equal ignoring case, and either cart.pop(i), the read of it["qty"]
\* for it["qty"] -= qty, or the not-present result
CartRemoveCall(h) ==
    LET r == handlers[h] IN
    /\ r.op = "remove" /\ r.pc = "call"
    /\ addlog' = LogOther(addlog, r.sid)
    /\ IF r.sid \notin DOMAIN sessions
       THEN /\ reply' = KeyError(r)
            /\ handlers' = Done(h)
            /\ UNCHANGED <<sessions, calls>>
       ELSE LET cart == sessions[r.sid].cart
                obj == sessions[r.sid].obj
                i == FindLower(cart, r.itemName)
                st == [r EXCEPT !.state = obj]
            IN  /\ IF i = 0
                   THEN /\ handlers' = Begin(h, [st EXCEPT !.pc = "ret", !.res = "not present"])
                        /\ calls' = LogCall(calls, r.sid, RemoveCall(r))
                        /\ UNCHANGED sessions
                   ELSE IF cart[i].qty <= r.qty
                   THEN /\ sessions' = WithCart(r.sid, Pop(cart, i))
                        /\ calls' = LogCall(calls, r.sid, RemoveCall(r))
                        /\ handlers' = [AfterPop(handlers, h, obj, i) EXCEPT ![h] =
                               [st EXCEPT !.pc = "ret", !.seen = cart[i].qty,
                                          !.res = "Removed"]]
                   ELSE /\ handlers' = Begin(h, [st EXCEPT !.pc = "store", !.it = i,
                                                           !.seen = cart[i].qty,
                                                           !.tmp = cart[i].qty - r.qty,
                                                           !.res = "Reduced"])
                        /\ UNCHANGED <<sessions, calls>>
                /\ reply' = NoReply
    /\ UNCHANGED <<now, timers, nobj>>

\* the store of it["qty"] -= qty and it["subtotal"] = it["qty"] * it["price"]
CartRemoveStore(h) ==
    LET r == handlers[h] IN
    /\ r.op = "remove" /\ r.pc = "store"
    /\ sessions' = IF Live(h) /\ r.it > 0
                   THEN WithCart(r.sid, StoreQty(sessions[r.sid].cart, r.it, r.tmp))
                   ELSE sessions
    /\ handlers' = Begin(h, [r EXCEPT !.pc = "ret", !.it = 0, !.tmp = 0])
    /\ calls' = LogCall(calls, r.sid, RemoveCall(r))
    /\ reply' = NoReply
    /\ UNCHANGED <<now, timers, nobj, addlog>>

\* return {"result": res, "cart": sessions[sid]["cart"], "summary": ...}
CartRemoveReturn(h) ==
    LET r == handlers[h] IN
    /\ r.op = "remove" /\ r.pc = "ret"
    /\ reply' = IF r.sid \notin DOMAIN sessions
                THEN KeyError(r)
                ELSE Reply(r, 200, r.res, sessions[r.sid].cart)
    /\ handlers' = Done(h)
    /\ UNCHANGED <<now, sessions, timers, nobj, addlog, calls>>

----------------------------------------------------------------------------
(* GET /cart/view *)

CartViewCheck(h, sid) ==
    /\ Free(h)
    /\ LET rec == [Idle EXCEPT !.op = "view", !.sid = sid]
       IN  IF sid \notin DOMAIN sessions
           THEN /\ reply' = NotFound(rec)
                /\ UNCHANGED handlers
           ELSE /\ handlers' = Begin(h, [rec EXCEPT !.pc = "call"])
                /\ reply' = NoReply
    /\ UNCHANGED <<now, sessions, timers, nobj, addlog, calls>>

\* state = sessions[session_id] and the reads of state for the response
CartViewRead(h) ==
    LET r == handlers[h] IN
    /\ r.op = "view" /\ r.pc = "call"
    /\ reply' = IF r.sid \notin DOMAIN sessions
                THEN KeyError(r)
                ELSE Reply(r, 200, "view", sessions[r.sid].cart)
    /\ handlers' = Done(h)
    /\ UNCHANGED <<now, sessions, timers, nobj, addlog, calls>>

----------------------------------------------------------------------------
(* POST /checkout *)

\* a checkout in flight will start at most one more auto-logout thread
InFlightCheckouts == Cardinality({h \in Threads : handlers[h].op = "checkout"})

\* a further checkout is admitted: it will not start a thread beyond the bound
TimerAdmitted == BagCardinality(timers) + InFlightCheckouts < MaxTimers

PayAdmitted == BagCardinality(timers) + InFlightCheckouts < MaxPayTimers

CheckoutCheck(h, sid, paymentMethod) ==
    /\ Free(h)
    /\ LET rec == [Idle EXCEPT !.op = "checkout", !.sid = sid, !.method = paymentMethod]
       IN  IF sid \notin DOMAIN sessions
           THEN /\ reply' = NotFound(rec)
                /\ UNCHANGED handlers
           ELSE /\ handlers' = Begin(h, [rec EXCEPT !.pc = "assemble"])
                /\ reply' = NoReply
    /\ UNCHANGED <<now, sessions, timers, nobj, addlog, calls>>

\* mutant: the empty-cart test is missing
IsEmptyCartNever(cart) == FALSE

\* if not cart
IsEmptyCart(cart) == cart = <<>>

\* mutant: every answer of the billing service counts as success
IsSuccessAnyAnswer(status_code) == status_code # 0

\* resp.status_code in (200, 201)
IsSuccess(status_code) == status_code \in {200, 201}

\* items_payload and payload of checkout
Payload(state, cart, paymentMethod) ==
    [customerName |-> state.user.name,
     mobileNo |-> state.user.mobile,
     address |-> state.user.address,
     items |-> [i \in DOMAIN cart |->
                  [itemName |-> cart[i].name, qty |-> cart[i].qty,
                   rate |-> cart[i].price, amount |-> cart[i].subtotal]],
     total |-> SumSubtotals(cart),
     paymentMethod |-> paymentMethod]

\* state = sessions[sid]; the empty-cart test; the payload; requests.post sent
CheckoutAssemble(h) ==
    LET r == handlers[h] IN
    /\ r.op = "checkout" /\ r.pc = "assemble"
    /\ IF r.sid \notin DOMAIN sessions
       THEN /\ reply' = KeyError(r)
            /\ handlers' = Done(h)
       ELSE LET state == sessions[r.sid]
                cart == state.cart
            IN  IF IsEmptyCart(cart)
                THEN /\ reply' = Reply(r, 400, "Cart is empty.", <<>>)
                     /\ handlers' = Done(h)
                ELSE /\ handlers' = Begin(h, [r EXCEPT !.pc = "billing", !.state = state.obj,
                                                       !.payload = <<Payload(state, cart, r.method)>>,
                                                       !.sent = now])
                     /\ reply' = NoReply
    /\ UNCHANGED <<now, sessions, timers, nobj, addlog, calls>>

\* requests.post returns or raises, and the rest of checkout
CheckoutBilling(h, outcome) ==
    LET r == handlers[h] IN
    /\ r.op = "checkout" /\ r.pc = "billing"
    /\ IF outcome = 0
       THEN /\ reply' = [Reply(r, 502, "Failed to forward to billing API", <<>>)
                            EXCEPT !.payload = r.payload]
            /\ handlers' = Done(h)
            /\ UNCHANGED <<sessions, timers, addlog, calls>>
       ELSE IF IsSuccess(outcome)
       THEN /\ sessions' = IF Live(h) THEN WithCart(r.sid, <<>>) ELSE sessions
            /\ addlog' = LogOther(addlog, r.sid)
            /\ calls' = IF Live(h) THEN LogCall(calls, r.sid, ClearCall) ELSE calls
            /\ timers' = StartTimer(r.sid, CHECKOUT_LOGOUT_DELAY)
            /\ handlers' = [AfterClear(handlers, h, r.state) EXCEPT ![h] = Idle]
            /\ reply' = [Reply(r, 200, "Order placed", <<>>)
                            EXCEPT !.payload = r.payload, !.status = outcome]
       ELSE /\ reply' = [Reply(r, 502, "billing_status", <<>>)
                            EXCEPT !.payload = r.payload, !.status = outcome]
            /\ handlers' = Done(h)
            /\ UNCHANGED <<sessions, timers, addlog, calls>>
    /\ UNCHANGED <<now, nobj>>

----------------------------------------------------------------------------
(* POST /session/reset *)

\* request.json() called without await in a plain `def` endpoint: Starlette's
\* Request.json is a coroutine function, so the call returns a coroutine
\* object and raises nothing
RequestJson(sent) == [type |-> "coroutine", session_id |-> sent]

\* body.get("session_id") if isinstance(body, dict) else None  (None is <<>>)
BodySessionId(body) == IF body.type = "dict" THEN body.session_id ELSE <<>>

SessionReset(h, sent) ==
    /\ Free(h)
    /\ LET body == RequestJson(sent)
           session_id == BodySessionId(body)
           rec == [Idle EXCEPT !.op = "reset", !.sid = sent]
       IN  IF session_id # <<>> /\ session_id \in DOMAIN sessions
           THEN /\ sessions' = Remove(sessions, session_id)
                /\ addlog' = Remove(addlog, session_id)
                /\ calls' = DropCalls(calls, session_id)
                /\ reply' = Reply(rec, 200, "reset True", <<>>)
           ELSE /\ reply' = Reply(rec, 200, "reset False", <<>>)
                /\ UNCHANGED <<sessions, addlog, calls>>
    /\ UNCHANGED <<now, timers, nobj, handlers>>

----------------------------------------------------------------------------
(* Specifications *)

\* the session ids a client may send: every id handed out and still known to
\* the store or to a timer, and one that was never handed out
SidInputs == DOMAIN sessions \cup {tm.sid : tm \in BagToSet(timers)} \cup {UnknownSid}

\* Main specification: one request at a time, the auto-logout threads and the
\* clock; two sessions, one item
Next ==
    \/ \E h \in CartThreads, n \in ProfileNames, m \in Mobiles, a \in Addresses :
          SessionCreate(h, n, m, a)
    \/ \E h \in CartThreads, sid \in SidInputs, n \in ItemNames, p \in Prices, q \in AddQtys :
          CartAddCheck(h, sid, n, p, q)
    \/ \E h \in CartThreads : CartAddCall(h)
    \/ \E h \in CartThreads : CartAddStore(h)
    \/ \E h \in CartThreads : CartAddReturn(h)
    \/ \E h \in CartThreads, sid \in SidInputs, n \in RemoveNames, q \in RemoveQtys :
          CartRemoveCheck(h, sid, n, q)
    \/ \E h \in CartThreads : CartRemoveCall(h)
    \/ \E h \in CartThreads : CartRemoveStore(h)
    \/ \E h \in CartThreads : CartRemoveReturn(h)
    \/ \E h \in CartThreads, sid \in SidInputs : CartViewCheck(h, sid)
    \/ \E h \in CartThreads : CartViewRead(h)
    \/ \E h \in CartThreads, sid \in SidInputs, pm \in PaymentMethods :
          TimerAdmitted /\ CheckoutCheck(h, sid, pm)
    \/ \E h \in CartThreads : CheckoutAssemble(h)
    \/ \E h \in CartThreads, o \in BillingOutcomes : CheckoutBilling(h, o)
    \/ \E h \in CartThreads, sid \in SidInputs : SessionReset(h, sid)
    \/ \E tm \in BagToSet(timers) : TimerFire(tm)
    \/ Tick

Spec == Init /\ [][Next]_vars

\* Cart specification: one thread, one shopper at a time, the full range of
\* item names, prices and quantities
CartNext ==
    \/ \E h \in CartThreads, n \in ProfileNames, m \in Mobiles, a \in Addresses :
          sessions = << >> /\ SessionCreate(h, n, m, a)
    \/ \E h \in CartThreads, sid \in SidInputs, n \in CartItemNames, p \in CartPrices,
          q \in CartAddQtys : CartAddCheck(h, sid, n, p, q)
    \/ \E h \in CartThreads : CartAddCall(h)
    \/ \E h \in CartThreads : CartAddStore(h)
    \/ \E h \in CartThreads : CartAddReturn(h)
    \/ \E h \in CartThreads, sid \in SidInputs, n \in CartRemoveNames, q \in CartRemoveQtys :
          CartRemoveCheck(h, sid, n, q)
    \/ \E h \in CartThreads : CartRemoveCall(h)
    \/ \E h \in CartThreads : CartRemoveStore(h)
    \/ \E h \in CartThreads : CartRemoveReturn(h)
    \/ \E h \in CartThreads, sid \in SidInputs : CartViewCheck(h, sid)
    \/ \E h \in CartThreads : CartViewRead(h)
    \/ \E h \in CartThreads, sid \in SidInputs, pm \in PaymentMethods :
          TimerAdmitted /\ CheckoutCheck(h, sid, pm)
    \/ \E h \in CartThreads : CheckoutAssemble(h)
    \/ \E h \in CartThreads, o \in BillingOutcomes : CheckoutBilling(h, o)
    \/ \E h \in CartThreads, sid \in SidInputs : SessionReset(h, sid)

SpecCart == Init /\ [][CartNext]_vars

\* Profile specification: one thread, the full range of profiles sent to
\* /session/create, views, the auto-logout threads and the clock
CreateNext ==
    \/ \E h \in CartThreads, n \in CreateNames, m \in CreateMobiles, a \in CreateAddresses :
          SessionCreate(h, n, m, a)
    \/ \E h \in CartThreads, sid \in SidInputs : CartViewCheck(h, sid)
    \/ \E h \in CartThreads : CartViewRead(h)
    \/ \E tm \in BagToSet(timers) : TimerFire(tm)
    \/ Tick

SpecCreate == Init /\ [][CreateNext]_vars

\* Expiry specification: one thread and one session, created when the store
\* is empty and early enough for its idle window and a grace window to end
\* before the clock stops; its cart requests, the auto-logout threads and
\* the clock
TimeNext ==
    \/ \E h \in CartThreads, n \in ProfileNames, m \in Mobiles, a \in Addresses :
          /\ sessions = << >>
          /\ now + AUTO_LOGOUT_SECONDS + CHECKOUT_LOGOUT_DELAY <= MaxTime
          /\ SessionCreate(h, n, m, a)
    \/ \E h \in CartThreads, sid \in SidInputs, n \in ItemNames, p \in Prices, q \in AddQtys :
          CartAddCheck(h, sid, n, p, q)
    \/ \E h \in CartThreads : CartAddCall(h)
    \/ \E h \in CartThreads : CartAddStore(h)
    \/ \E h \in CartThreads : CartAddReturn(h)
    \/ \E h \in CartThreads, sid \in SidInputs, n \in RemoveNames, q \in RemoveQtys :
          CartRemoveCheck(h, sid, n, q)
    \/ \E h \in CartThreads : CartRemoveCall(h)
    \/ \E h \in CartThreads : CartRemoveStore(h)
    \/ \E h \in CartThreads : CartRemoveReturn(h)
    \/ \E h \in CartThreads, sid \in SidInputs : CartViewCheck(h, sid)
    \/ \E h \in CartThreads : CartViewRead(h)
    \/ \E h \in CartThreads, sid \in SidInputs, pm \in PaymentMethods :
          TimerAdmitted /\ CheckoutCheck(h, sid, pm)
    \/ \E h \in CartThreads : CheckoutAssemble(h)
    \/ \E h \in CartThreads, o \in BillingOutcomes : CheckoutBilling(h, o)
    \/ \E h \in CartThreads, sid \in SidInputs : SessionReset(h, sid)
    \/ \E tm \in BagToSet(timers) : TimerFire(tm)
    \/ Tick

SpecTime == Init /\ [][TimeNext]_vars

\* the steps of a handler after its first
HandlerStep(h) ==
    \/ CartAddCall(h) \/ CartAddStore(h) \/ CartAddReturn(h)
    \/ CartRemoveCall(h) \/ CartRemoveStore(h) \/ CartRemoveReturn(h)
    \/ CartViewRead(h)
    \/ CheckoutAssemble(h)
    \/ \E o \in BillingOutcomes : CheckoutBilling(h, o)

\* Scheduling: a worker thread that serves a request goes on to its end
\* (requests.post returns or raises within its timeout), a thread whose sleep
\* is over runs, and time does not stand still however many requests arrive
TimeFairness ==
    /\ \A h \in CartThreads : WF_vars(HandlerStep(h))
    /\ WF_vars(\E tm \in BagToSet(timers) : TimerFire(tm))
    /\ SF_vars(Tick)

SpecTimeFair == SpecTime /\ TimeFairness

\* cart calls of session sid that a handler is serving
InFlightCalls(sid) ==
    Cardinality({h \in Threads : handlers[h].sid = sid /\ handlers[h].op \in {"add", "remove"}})

\* a further cart call on sid is admitted
CallAdmitted(sid) ==
    sid \in DOMAIN calls.of => Len(calls.of[sid]) + InFlightCalls(sid) < MaxCalls

\* Concurrent specification: two threads serve add and remove requests on one
\* session at the same time; the history of the completed calls is kept
ConcNext ==
    \/ \E h \in Threads, n \in ProfileNames, m \in Mobiles, a \in Addresses :
          sessions = << >> /\ SessionCreate(h, n, m, a)
    \/ \E h \in Threads, sid \in SidInputs, n \in ItemNames, p \in Prices, q \in AddQtys :
          CallAdmitted(sid) /\ CartAddCheck(h, sid, n, p, q)
    \/ \E h \in Threads : CartAddCall(h)
    \/ \E h \in Threads : CartAddStore(h)
    \/ \E h \in Threads : CartAddReturn(h)
    \/ \E h \in Threads, sid \in SidInputs, n \in RemoveNames, q \in RemoveQtys :
          CallAdmitted(sid) /\ CartRemoveCheck(h, sid, n, q)
    \/ \E h \in Threads : CartRemoveCall(h)
    \/ \E h \in Threads : CartRemoveStore(h)
    \/ \E h \in Threads : CartRemoveReturn(h)

InitConc ==
    /\ now = 0
    /\ sessions = << >>
    /\ timers = EmptyBag
    /\ nobj = 0
    /\ handlers = [h \in Threads |-> Idle]
    /\ reply = NoReply
    /\ addlog = << >>
    /\ calls = KeepCalls

SpecConc == InitConc /\ [][ConcNext]_vars

\* Checkout specification: two threads serve add, remove and checkout
\* requests on one session at the same time, with the auto-logout threads and
\* the clock; the history of the calls that took effect is kept
PayNext ==
    \/ \E h \in Threads, n \in ProfileNames, m \in Mobiles, a \in Addresses :
          /\ sessions = << >>
          /\ now + AUTO_LOGOUT_SECONDS + CHECKOUT_LOGOUT_DELAY <= MaxTime
          /\ SessionCreate(h, n, m, a)
    \/ \E h \in Threads, sid \in SidInputs, n \in ItemNames, p \in Prices, q \in AddQtys :
          CallAdmitted(sid) /\ CartAddCheck(h, sid, n, p, q)
    \/ \E h \in Threads : CartAddCall(h)
    \/ \E h \in Threads : CartAddStore(h)
    \/ \E h \in Threads : CartAddReturn(h)
    \/ \E h \in Threads, sid \in SidInputs, n \in RemoveNames, q \in RemoveQtys :
          CallAdmitted(sid) /\ CartRemoveCheck(h, sid, n, q)
    \/ \E h \in Threads : CartRemoveCall(h)
    \/ \E h \in Threads : CartRemoveStore(h)
    \/ \E h \in Threads : CartRemoveReturn(h)
    \/ \E h \in Threads, sid \in SidInputs, pm \in PaymentMethods :
          PayAdmitted /\ CheckoutCheck(h, sid, pm)
    \/ \E h \in Threads : CheckoutAssemble(h)
    \/ \E h \in Threads, o \in BillingOutcomes : CheckoutBilling(h, o)
    \/ \E tm \in BagToSet(timers) : TimerFire(tm)
    \/ Tick

SpecPay == InitConc /\ [][PayNext]_vars

----------------------------------------------------------------------------
(* Claims *)

Cart(sid) == sessions[sid].cart

Min(a, b) == IF a <= b THEN a ELSE b

AllIdle == \A h \in Threads : handlers[h].pc = "idle"

\* C1: in every reachable state no cart holds two line items whose names are
\* equal ignoring case (an add whose name matches a line case-insensitively
\* merges into it instead of appending).
C1_NoCaseDuplicates ==
    \A sid \in DOMAIN sessions :
        \A i, j \in DOMAIN Cart(sid) :
            i # j => lower(Cart(sid)[i].name) # lower(Cart(sid)[j].name)

\* C2 as claimed: after any sequence of adds of one name on the empty cart of a
\* new session, the cart is one line whose quantity is the sum of the
\* quantities and whose subtotal is that quantity times the price of the LAST
\* call.
C2_SubtotalAtLastPrice ==
    \A sid \in DOMAIN sessions \cap DOMAIN addlog :
        (addlog[sid].pure /\ addlog[sid].name # <<>>) =>
            /\ Len(Cart(sid)) = 1
            /\ Cart(sid)[1].name = addlog[sid].name
            /\ Cart(sid)[1].qty = addlog[sid].sum
            /\ Cart(sid)[1].subtotal = addlog[sid].sum * addlog[sid].last

\* C2 as amended: after any sequence of adds of one name on the empty cart of a
\* new session, the cart is one line whose quantity is the sum of the
\* quantities, whose unit price is the price of the FIRST call and whose
\* subtotal is that quantity times the price of the first call.
C2_SubtotalAtFirstPrice ==
    \A sid \in DOMAIN sessions \cap DOMAIN addlog :
        (addlog[sid].pure /\ addlog[sid].name # <<>>) =>
            /\ Len(Cart(sid)) = 1
            /\ Cart(sid)[1].name = addlog[sid].name
            /\ Cart(sid)[1].qty = addlog[sid].sum
            /\ Cart(sid)[1].price = addlog[sid].first
            /\ Cart(sid)[1].subtotal = addlog[sid].sum * addlog[sid].first

\* several adds of one name, at two different prices, have completed
C2_Witness ==
    /\ AllIdle
    /\ reply.op = "add" /\ reply.code = 200
    /\ \E sid \in DOMAIN sessions \cap DOMAIN addlog :
          /\ addlog[sid].pure
          /\ addlog[sid].sum >= 2
          /\ addlog[sid].first # addlog[sid].last

\* C3: a remove that found a line of quantity q for its name: if the requested
\* qty >= q the outcome is "removed" and afterwards no line of the cart matches
\* the name ignoring case; if qty < q the outcome is "reduced" and the line
\* remains with quantity q - qty.
C3_RemoveOutcome ==
    \A h \in Threads :
        LET r == handlers[h] IN
        (/\ r.op = "remove" /\ r.pc = "ret" /\ r.res # "not present"
         /\ r.sid \in DOMAIN sessions) =>
            LET i == FindLower(Cart(r.sid), r.itemName) IN
            /\ r.qty >= r.seen => (r.res = "Removed" /\ i = 0)
            /\ r.qty < r.seen =>
                  (r.res = "Reduced" /\ i # 0 /\ Cart(r.sid)[i].qty = r.seen - r.qty)

\* the step of a remove handler that changes the cart: cart.pop(i) (from pc
\* "call") or the store of the reduced quantity (from pc "store")
RemoveEffect(h) ==
    /\ handlers[h].op = "remove"
    /\ handlers[h].pc \in {"call", "store"}
    /\ handlers'[h].pc = "ret"
    /\ handlers'[h].res \in {"Removed", "Reduced"}
    /\ handlers[h].sid \in DOMAIN sessions
    /\ handlers[h].sid \in DOMAIN sessions'

\* the unit price of the line the remove handler found
FoundPrice(h) ==
    LET r == handlers[h] IN
    IF r.pc = "call" THEN Cart(r.sid)[FindLower(Cart(r.sid), r.itemName)].price
    ELSE Cart(r.sid)[r.it].price

\* min(existing_qty, requested_qty) * price of the remove that takes effect
RemovedAmount(h) == Min(handlers'[h].seen, handlers[h].qty) * FoundPrice(h)

TotalBefore(h) == compute_cart_summary(sessions[handlers[h].sid].cart).total

TotalAfter(h) == compute_cart_summary(sessions'[handlers[h].sid].cart).total

\* C4 as claimed: every remove that finds its item makes the summary total
\* strictly smaller, by exactly min(existing_qty, requested_qty) * unit price.
C4_TotalStrictlyDecreases ==
    [][\A h \in Threads :
          RemoveEffect(h) =>
              /\ TotalAfter(h) < TotalBefore(h)
              /\ TotalBefore(h) - TotalAfter(h) = RemovedAmount(h)]_vars

\* C4 as amended: every remove that finds its item changes the summary total by
\* exactly min(existing_qty, requested_qty) * unit price; the total is strictly
\* smaller exactly when that amount is positive (it is 0 for a requested qty
\* of 0 and negative for a negative requested qty).
C4_TotalDecreasesByMin ==
    [][\A h \in Threads :
          RemoveEffect(h) =>
              /\ TotalBefore(h) - TotalAfter(h) = RemovedAmount(h)
              /\ (TotalAfter(h) < TotalBefore(h)) <=> (RemovedAmount(h) > 0)]_vars

\* a remove of a positive quantity has reduced a line and one has removed a line
C4_Witness ==
    \E h \in Threads :
        /\ handlers[h].op = "remove" /\ handlers[h].pc = "ret"
        /\ handlers[h].res = "Reduced"
        /\ handlers[h].qty = 1 /\ handlers[h].seen = 2
        /\ Len(Cart(handlers[h].sid)) = 2

\* C5: after a successful checkout the cart is empty; while a 30-second grace
\* window opened by a checkout has not elapsed the session id is in the store
\* and a view of it is answered 200; and when the window elapses the id is
\* gone from the store.
C5_GraceWindow ==
    /\ [](/\ (reply.op = "checkout" /\ reply.code = 200 /\ reply.sid \in DOMAIN sessions)
                 => Cart(reply.sid) = <<>>
          /\ \A tm \in BagToSet(timers) :
                (tm.delay = CHECKOUT_LOGOUT_DELAY /\ now < tm.due) =>
                    /\ tm.sid \in DOMAIN sessions
                    /\ (reply.op = "view" /\ reply.sid = tm.sid) => reply.code = 200)
    /\ [][\A tm \in BagToSet(timers) :
            (tm.delay = CHECKOUT_LOGOUT_DELAY /\ TimerFire(tm)) =>
                tm.sid \notin DOMAIN sessions']_vars

\* C6: reset on a session id present in the store removes the session and
\* answers reset=true; reset on an absent id changes nothing and answers
\* reset=false.
C6_ResetRemoves ==
    [][\A h \in Threads, sid \in SidInputs :
          SessionReset(h, sid) =>
              IF sid \in DOMAIN sessions
              THEN sid \notin DOMAIN sessions' /\ reply'.detail = "reset True"
              ELSE sessions' = sessions /\ reply'.detail = "reset False"]_vars

\* C7: a create never overwrites or aliases an existing session record: the
\* record stored under an id stays the same object for as long as the id is a
\* key of the store.
C7_NoOverwrite ==
    [][\A sid \in DOMAIN sessions :
          sid \in DOMAIN sessions' => sessions'[sid].obj = sessions[sid].obj]_vars

\* C8: a checkout that finds the session's cart empty fails with "Cart is
\* empty." (400), builds no payload, does not reach the billing call, and
\* leaves the session store and the timers unchanged.
C8_EmptyCartRejected ==
    [][\A h \in Threads :
          (/\ handlers[h].op = "checkout" /\ handlers[h].pc = "assemble"
           /\ handlers'[h] # handlers[h]
           /\ handlers[h].sid \in DOMAIN sessions
           /\ Cart(handlers[h].sid) = <<>>) =>
              /\ reply'.op = "checkout" /\ reply'.code = 400
              /\ reply'.detail = "Cart is empty."
              /\ reply'.payload = <<>>
              /\ handlers'[h].pc = "idle" /\ handlers'[h].payload = <<>>
              /\ UNCHANGED <<sessions, timers>>]_vars

\* a checkout of an empty cart was answered and the session is still there
C8_Witness ==
    /\ reply.op = "checkout" /\ reply.code = 400
    /\ reply.sid \in DOMAIN sessions
    /\ Cart(reply.sid) = <<>>

\* C9: when the billing call raises or answers a status other than 200/201,
\* checkout answers 502, and no step of that checkout changes the session store
\* (cart, profile, presence) or starts a timer.
C9_FailureLeavesSession ==
    [][\A h \in Threads :
          /\ (/\ handlers[h].op = "checkout" /\ handlers[h].pc = "billing"
              /\ handlers'[h].pc = "idle"
              /\ reply'.status \notin {200, 201}) =>
                 (reply'.op = "checkout" /\ reply'.code = 502)
          /\ (/\ "checkout" \in {handlers[h].op, handlers'[h].op}
              /\ handlers'[h] # handlers[h]
              /\ ~(handlers[h].pc = "billing" /\ reply'.status \in {200, 201})) =>
                 UNCHANGED <<sessions, timers>>]_vars

\* billing answered 500 and the cart that was submitted is still in the store
C9_Witness ==
    /\ reply.op = "checkout" /\ reply.code = 502 /\ reply.status = 500
    /\ reply.sid \in DOMAIN sessions
    /\ Cart(reply.sid) # <<>>
    /\ Len(reply.payload[1].items) = Len(Cart(reply.sid))

\* C10: add, remove, view and checkout either complete or fail with NotFound
\* (checkout also with its empty-cart and billing failures); no unhandled
\* error is answered, whatever the interleaving with an expiry timer.
C10_OnlyNotFound ==
    /\ reply.op \in {"add", "remove", "view"} => reply.code \in {200, 404}
    /\ reply.op = "checkout" => reply.code \in {200, 400, 404, 502}

\* the mobile string as C11 reads it: exactly 10 characters, all digits, the
\* first being '3'
TenDigitsFrom3(m) ==
    Len(m) = 10 /\ (\A i \in DOMAIN m : m[i] \in Digits) /\ m[1] = "3"

\* C11 as claimed: a create makes a session only when the mobile string it was
\* sent is exactly 10 characters, all digits, the first '3'; for every other
\* mobile string the create is rejected (400) and the session store and the
\* timers are unchanged.
C11_MobileAsSent ==
    [][\A h \in CartThreads, n \in CreateNames, m \in CreateMobiles, a \in CreateAddresses :
          SessionCreate(h, n, m, a) =>
              /\ nobj' # nobj => TenDigitsFrom3(m)
              /\ ~TenDigitsFrom3(m) =>
                    (reply'.code = 400 /\ UNCHANGED <<sessions, timers>>)]_vars

\* C11 as amended: a create makes a session only when the mobile string, with
\* its leading and trailing whitespace removed, is exactly 10 characters, all
\* digits, the first '3'; for every other mobile string the create is rejected
\* (400) and the session store and the timers are unchanged; the mobile kept
\* in the record is the country code followed by the stripped string.
C11_MobileStripped ==
    [][\A h \in CartThreads, n \in CreateNames, m \in CreateMobiles, a \in CreateAddresses :
          SessionCreate(h, n, m, a) =>
              /\ nobj' # nobj =>
                    /\ TenDigitsFrom3(strip(m))
                    /\ sessions'[NewSessionId(now)].user.mobile
                          = DEFAULT_COUNTRY_CODE \o strip(m)
              /\ ~TenDigitsFrom3(strip(m)) =>
                    (reply'.code = 400 /\ UNCHANGED <<sessions, timers>>)]_vars

\* a create was rejected for its mobile while a session made by an earlier
\* create is in the store
C11_Witness ==
    /\ reply.op = "create" /\ reply.code = 400
    /\ reply.detail = "Mobile must be 10 digits"
    /\ sessions # << >>

\* the auto-logout threads that sleep for session id sid
TimersOf(sid) == [tm \in {x \in BagToSet(timers) : x.sid = sid} |-> timers[tm]]

\* C12: each session in the store has exactly one outstanding expiry timer
\* (the grace timer of a checkout takes the place of the idle timer), and when
\* a timer fires for a session id no other timer for that id is left to fire.
C12_OneTimerPerSession ==
    /\ [](\A sid \in DOMAIN sessions : BagCardinality(TimersOf(sid)) = 1)
    /\ [][\A tm \in BagToSet(timers) :
            TimerFire(tm) => BagCardinality(TimersOf(tm.sid))' = 0]_vars

\* the cart one call leaves when it runs alone
ApplyCall(call, cart) ==
    IF call.op = "add" THEN add_to_cart_state(cart, call.name, call.price, call.qty)
    ELSE IF call.op = "remove" THEN remove_from_cart_state(cart, call.name, call.qty).cart
    ELSE <<>>

\* the carts that the calls log[i], i in todo, leave when they run one after
\* another in some order, starting from cart
RECURSIVE SequentialCarts(_, _, _)
SequentialCarts(cart, log, todo) ==
    IF todo = {} THEN {cart}
    ELSE UNION {SequentialCarts(ApplyCall(log[i], cart), log, todo \ {i}) : i \in todo}

\* C13: whatever the interleaving of the steps of concurrent add and remove
\* calls on one session, the cart is the cart that the calls completed so far
\* produce in some sequential order (starting from the empty cart of the new
\* session), and every line has subtotal = price * quantity.
C13_Linearizable ==
    \A sid \in DOMAIN sessions \cap DOMAIN calls.of :
        /\ Cart(sid) \in SequentialCarts(<<>>, calls.of[sid], DOMAIN calls.of[sid])
        /\ \A i \in DOMAIN Cart(sid) :
              Cart(sid)[i].subtotal = Cart(sid)[i].price * Cart(sid)[i].qty

RECURSIVE SumPriceQty(_)
SumPriceQty(cart) ==
    IF cart = <<>> THEN 0 ELSE Head(cart).price * Head(cart).qty + SumPriceQty(Tail(cart))

\* C14: with one call served at a time, every line of every cart has
\* subtotal = price * quantity and the total of the cart's summary is the sum
\* of price * quantity over its lines; so has every cart and summary returned.
C14_SubtotalAndTotal ==
    /\ \A sid \in DOMAIN sessions :
          /\ \A i \in DOMAIN Cart(sid) :
                Cart(sid)[i].subtotal = Cart(sid)[i].price * Cart(sid)[i].qty
          /\ compute_cart_summary(Cart(sid)).total = SumPriceQty(Cart(sid))
    /\ reply.code = 200 =>
          /\ reply.summary.total = SumPriceQty(reply.cart)
          /\ \A i \in DOMAIN reply.cart :
                reply.summary.lines[i].amount = reply.cart[i].price * reply.cart[i].qty

\* a remove has just reduced a merged line of a cart of two lines
C14_Witness ==
    /\ reply.op = "remove" /\ reply.code = 200 /\ reply.detail = "Reduced"
    /\ Len(reply.cart) = 2
    /\ reply.summary.total > 0
    /\ \E sid \in DOMAIN sessions : Cart(sid) = reply.cart

\* C15: in every reachable state every line of every cart has a quantity
\* greater than 0 and a unit price of at least 0, whatever qty (0 and negative
\* included) the add and remove requests carry.
C15_PositiveQty ==
    \A sid \in DOMAIN sessions :
        \A i \in DOMAIN Cart(sid) :
            Cart(sid)[i].qty > 0 /\ Cart(sid)[i].price >= 0

\* the step is the end of the sleep of a grace timer of sid
GraceFires(sid) ==
    \E tm \in BagToSet(timers) :
        tm.sid = sid /\ tm.delay = CHECKOUT_LOGOUT_DELAY /\ TimerFire(tm)

\* C16: a session is in the store no later than AUTO_LOGOUT_SECONDS after its
\* creation; unless the grace timer of a successful checkout removes it, it
\* leaves the store exactly AUTO_LOGOUT_SECONDS after its creation and not
\* before, whatever add, remove and view requests are served in between (a
\* reset removes nothing); and every session created is eventually removed.
C16_IdleWindowFixed ==
    /\ [](\A sid \in DOMAIN sessions :
            now <= sessions[sid].created_at + AUTO_LOGOUT_SECONDS)
    /\ [][\A sid \in DOMAIN sessions :
            (sid \notin DOMAIN sessions' /\ ~GraceFires(sid)) =>
                now = sessions[sid].created_at + AUTO_LOGOUT_SECONDS]_vars
    /\ (sessions # << >>) ~> (sessions = << >>)

\* the idle window of a session is over, no checkout of it has succeeded (no
\* grace timer was started), and adds have been served in between
C16_Witness ==
    \E sid \in DOMAIN sessions :
        /\ now = sessions[sid].created_at + AUTO_LOGOUT_SECONDS
        /\ Cart(sid) # <<>>
        /\ BagToSet(timers) = {[sid |-> sid, delay |-> AUTO_LOGOUT_SECONDS, due |-> now]}

\* no line of the cart has the name, ignoring case
NoLineMatches(cart, item_name) ==
    \A i \in DOMAIN cart : lower(cart[i].name) # lower(item_name)

\* C17: a remove whose name matches no line of the cart, ignoring case,
\* reports failure (the "not present" result, success = false) and changes
\* neither the cart nor anything else of the session store; the cart it
\* returns is the cart as it was.
C17_RemoveAbsent ==
    [][\A h \in Threads :
          LET r == handlers[h] IN
          /\ (/\ r.op = "remove" /\ r.pc = "call" /\ handlers'[h] # r
              /\ r.sid \in DOMAIN sessions
              /\ NoLineMatches(Cart(r.sid), r.itemName)) =>
                 /\ handlers'[h].pc = "ret" /\ handlers'[h].res = "not present"
                 /\ UNCHANGED <<sessions, timers>>
          /\ (/\ r.op = "remove" /\ r.pc = "ret" /\ handlers'[h] # r
              /\ r.res = "not present"
              /\ r.sid \in DOMAIN sessions) =>
                 /\ reply'.op = "remove" /\ reply'.code = 200
                 /\ reply'.detail = "not present"
                 /\ reply'.cart = Cart(r.sid)
                 /\ UNCHANGED <<sessions, timers>>]_vars

\* a remove of a name that no line has was answered while the cart has lines
C17_Witness ==
    /\ reply.op = "remove" /\ reply.detail = "not present"
    /\ reply.cart # <<>>
    /\ \E sid \in DOMAIN sessions : Cart(sid) = reply.cart

\* the line is one of the items of the payload, as it was sent
InPayload(line, payload) ==
    \E j \in DOMAIN payload.items :
        payload.items[j] = [itemName |-> line.name, qty |-> line.qty,
                            rate |-> line.price, amount |-> line.subtotal]

\* the step in which handler h is answered success by billing and ends
CheckoutSucceeds(h) ==
    /\ handlers[h].op = "checkout" /\ handlers[h].pc = "billing"
    /\ handlers'[h].pc = "idle"
    /\ reply'.op = "checkout" /\ reply'.code = 200

\* C18: when a checkout succeeds, the record it clears is still the record
\* stored under its session id, and every line the clear removes from the
\* stored cart was sent in the payload, whatever add, remove or expiry steps
\* ran while the billing call was pending.
C18_ClearsWhatItSent ==
    [][\A h \in Threads :
          CheckoutSucceeds(h) =>
              /\ Live(h)
              /\ \A i \in DOMAIN Cart(handlers[h].sid) :
                    InPayload(Cart(handlers[h].sid)[i], handlers[h].payload[1])]_vars

\* the calls that took effect on session sid after its last clear
SinceLastClear(sid) ==
    LET c == calls.of[sid]
        clears == {k \in DOMAIN c : c[k].op = "clear"}
        last == IF clears = {} THEN 0 ELSE CHOOSE k \in clears : \A j \in clears : j <= k
    IN  SubSeq(c, last + 1, Len(c))

\* an order of session sid was submitted successfully before
OrderedBefore(sid) == \E k \in DOMAIN calls.of[sid] : calls.of[sid][k].op = "clear"

\* C19: when a checkout of a session succeeds after an earlier successful
\* checkout of that session, an add on the session took effect between the
\* two, also when both checkout requests were in flight at the same time.
C19_OrderedOnce ==
    [][\A h \in Threads :
          (/\ CheckoutSucceeds(h)
           /\ handlers[h].sid \in DOMAIN calls.of
           /\ OrderedBefore(handlers[h].sid)) =>
              \E k \in DOMAIN SinceLastClear(handlers[h].sid) :
                  SinceLastClear(handlers[h].sid)[k].op = "add"]_vars

SessionOps == {"add", "remove", "checkout", "reset"}

\* the session ids for which the step is a step of add, remove, checkout or
\* reset, or the expiry of a timer
OperatedSids ==
    {tm.sid : tm \in {x \in BagToSet(timers) :
                         x.due <= now /\ timers' = timers (-) SetToBag({x})}}
    \cup {handlers[h].sid : h \in {g \in Threads :
                         handlers[g].op \in SessionOps /\ handlers'[g] # handlers[g]}}
    \cup {handlers'[h].sid : h \in {g \in Threads :
                         handlers[g].op = "idle" /\ handlers'[g].op \in SessionOps}}
    \cup (IF reply'.op \in SessionOps THEN {reply'.sid} ELSE {})

====
